---- MODULE Spec2Model ----
(***************************************************************************)
(* Model of python/mlcroissant/recipes/flores200_datapipes.ipynb:          *)
(* the label mapping, the datapipe composition (shuffle, sharding_filter,  *)
(* map), the train/test loops with their step cap, and the epoch driver.   *)
(*                                                                         *)
(* The notebook's parts are modelled as five state machines over disjoint  *)
(* groups of variables:                                                    *)
(*   SpecLoop   one call of train(...) or test(...)                        *)
(*   SpecLabels classes_to_int / int_to_classes and their users            *)
(*   SpecPipe   one iteration of get_train_dataset()/get_test_dataset()    *)
(*   Spec       the epoch driver                                          *)
(*   SpecAdapter the datapipe that ta_factory.as_datapipe returns          *)
(* SpecLoopLong is SpecLoop with calls long enough for the progress lines. *)
(* Floats are modelled as exact rationals [num, den] with den > 0.         *)
(***************************************************************************)
EXTENDS Integers, Sequences, FiniteSets, TLC

VARIABLES
  \* ---- one call of train / test ----
  fn,             \* "train" or "test": which function is being called
  max_steps,      \* the max_steps argument / local
  num_batches,    \* how many batches the dataloader yields
  pc,             \* position in the function body
  iteration,      \* enumerate(dataloader, 1) counter
  pulled,         \* batches pulled out of the dataloader so far
  executed,       \* history: how many times the loop body ran
  total_samples,  \* total_samples local
  model_mode,     \* model.training: "train" or "eval"
  params,         \* version of the model parameters
  opt_steps,      \* optimizer state: number of optimizer.step() calls
  result,         \* what the call returned / raised
  printed,        \* history: the iterations at which a progress line was printed
  \* ---- the label mapping and its users ----
  train_records,  \* x["language"] of each record of train_data_pipe, in order
  classes_to_int, \* the dict classes_to_int
  int_to_classes, \* the dict int_to_classes
  lpc,            \* "start", "built", or "failed" after an uncaught error
  targets,        \* the last target unpack_row produced (-1: none yet)
  target_of,      \* the label that target was looked up for (0: none yet)
  pred_lang,      \* the last label the inference loop printed (0: none yet)
  \* ---- one iteration of train_dataset / test_dataset ----
  dataset,        \* the stages of the datapipe iterated, in order
  src,            \* x["language"] of each record the adapter's datapipe yields
  buffer_size,    \* shuffle(buffer_size=...)
  num_workers,    \* DataLoader(num_workers=...)
  src_pos,        \* records pulled from the adapter's datapipe so far
  shuffle_buffer, \* the shuffle stage's buffer (source positions)
  shuffle_out,    \* what the shuffle stage has yielded, in order
  shard_seen,     \* enumerate index of the sharding filter
  shard_out,      \* per instance: what its sharding filter has yielded
  map_out,        \* per instance: what its map stage has yielded
  map_state,      \* per instance: "running" or "KeyError"
  \* ---- the epoch driver ----
  NUM_EPOCHS,            \* float(os.environ.get("NUM_TRAIN_EPOCHS", 2.0))
  FRACTION_TEST,         \* float(os.environ.get("FRACTION_TEST", 1.0))
  TRAIN_BATCH_SIZE,      \* int(os.environ.get("TRAIN_BATCH_SIZE", 128))
  TEST_BATCH_SIZE,       \* int(os.environ.get("TEST_BATCH_SIZE", 128))
  dpc,                   \* position in the driver cell
  whole_epochs,
  remainder_train_steps,
  max_test_steps,
  epoch,
  next_epoch,            \* the next value range(whole_epochs) yields
  train_loss,            \* "unset", "value" or "None"
  test_result,           \* "unset" or "value": (test_loss, test_accuracy)
  log,                   \* history: the passes started and summary lines printed
  derr,                  \* the exception that ended the run, or "none"
  \* ---- the adapter's datapipe (as_datapipe, lines 119-126) ----
  reader,                \* the schema reader: record-set name -> its records
  record_set,            \* the record_set argument
  apc,                   \* "start", "created", "iterating", "exhausted" or an error
  cursor,                \* how many of the reader's records this iteration has read
  yielded,               \* the records this iteration has yielded
  iterations,            \* how many iterations were started
  completed              \* how many iterations ran to their end

loopVars == <<fn, max_steps, num_batches, pc, iteration, pulled, executed,
              total_samples, model_mode, params, opt_steps, result, printed>>

labelVars == <<train_records, classes_to_int, int_to_classes, lpc, targets,
               target_of, pred_lang>>

pipeVars == <<dataset, src, buffer_size, num_workers, src_pos, shuffle_buffer,
              shuffle_out, shard_seen, shard_out, map_out, map_state>>

driverVars == <<NUM_EPOCHS, FRACTION_TEST, TRAIN_BATCH_SIZE, TEST_BATCH_SIZE, dpc,
                whole_epochs, remainder_train_steps, max_test_steps, epoch,
                next_epoch, train_loss, test_result, log, derr>>

adapterVars == <<reader, record_set, apc, cursor, yielded, iterations, completed>>

vars == <<loopVars, labelVars, pipeVars, driverVars, adapterVars>>

\* what each of the machines leaves alone
notLoopVars == <<labelVars, pipeVars, driverVars, adapterVars>>
notLabelVars == <<loopVars, pipeVars, driverVars, adapterVars>>
notPipeVars == <<loopVars, labelVars, driverVars, adapterVars>>
notDriverVars == <<loopVars, labelVars, pipeVars, adapterVars>>
notAdapterVars == <<loopVars, labelVars, pipeVars, driverVars>>

\* the resting values of a machine that takes no part in a specification
LoopIdle ==
  /\ fn = "none"
  /\ max_steps = [kind |-> "None", num |-> 0, den |-> 1]
  /\ num_batches = 0
  /\ pc = "idle"
  /\ iteration = 0
  /\ pulled = 0
  /\ executed = 0
  /\ total_samples = 0
  /\ model_mode = "train"
  /\ params = 0
  /\ opt_steps = 0
  /\ result = "pending"
  /\ printed = <<>>

LabelsIdle ==
  /\ train_records = <<>>
  /\ classes_to_int = <<>>
  /\ int_to_classes = <<>>
  /\ lpc = "idle"
  /\ targets = -1
  /\ target_of = 0
  /\ pred_lang = 0

DriverIdle ==
  /\ NUM_EPOCHS = [kind |-> "num", num |-> 0, den |-> 1]
  /\ FRACTION_TEST = [kind |-> "num", num |-> 1, den |-> 1]
  /\ TRAIN_BATCH_SIZE = 1
  /\ TEST_BATCH_SIZE = 1
  /\ dpc = "idle"
  /\ whole_epochs = 0
  /\ remainder_train_steps = [kind |-> "num", num |-> 0, den |-> 1]
  /\ max_test_steps = [kind |-> "None", num |-> 0, den |-> 1]
  /\ epoch = 0
  /\ next_epoch = 0
  /\ train_loss = "unset"
  /\ test_result = "unset"
  /\ log = <<>>
  /\ derr = "none"

PipeIdle ==
  /\ dataset = <<>>
  /\ src = <<>>
  /\ buffer_size = 1
  /\ num_workers = 0
  /\ src_pos = 0
  /\ shuffle_buffer = <<>>
  /\ shuffle_out = <<>>
  /\ shard_seen = 0
  /\ shard_out = <<>>
  /\ map_out = <<>>
  /\ map_state = <<>>

AdapterIdle ==
  /\ reader = <<>>
  /\ record_set = "none"
  /\ apc = "idle"
  /\ cursor = 0
  /\ yielded = <<>>
  /\ iterations = 0
  /\ completed = 0

(***************************************************************************)
(* Rationals and the max_steps values.                                     *)
(***************************************************************************)
Min(a, b) == IF a <= b THEN a ELSE b

\* floor of a non-negative rational
Floor(r) == r.num \div r.den

\* max_steps=None (the default argument)
NoCap == [kind |-> "None", num |-> 0, den |-> 1]

\* float("inf")
Inf == [kind |-> "inf", num |-> 0, den |-> 1]

\* a finite number n/d
Num(n, d) == [kind |-> "num", num |-> n, den |-> d]

\* ---- bounds of the loop model ----
MaxBatches == 5
MaxCapNum == 8
CapDen == 2
\* len(outputs): samples in one batch
BatchLen == 2

\* the step caps a caller can pass: None, or a non-negative number
Caps == {NoCap} \cup {Num(n, CapDen) : n \in 0..MaxCapNum}

(***************************************************************************)
(* train(model, optimizer, dataloader, max_steps=None)                     *)
(* test(model, dataloader, max_steps=None)                                 *)
(***************************************************************************)
\* faulty variant: the guard written with < instead of <=
CapNegative(ms) == ms.kind = "num" /\ ms.num < 0

\* `elif max_steps <= 0`
CapNonPositive(ms) == ms.kind = "num" /\ ms.num <= 0

\* faulty variant: the break test written with >= instead of >
ExceedsCapGE(it, ms) == ms.kind = "num" /\ it * ms.den >= ms.num

\* `if iteration > max_steps: break` (never true of float("inf"))
ExceedsCap(it, ms) == ms.kind = "num" /\ it * ms.den > ms.num

\* lines 505 and 559: the `100` of `if iteration % 100 == 0`
ProgressEvery == 100

\* faulty variant: the cadence counted as if enumerate started at 0
IsProgressTurnFromZero(it) == (it - 1) % ProgressEvery = 0

\* `if iteration % 100 == 0`: a progress line is printed in this turn
IsProgressTurn(it) == it % ProgressEvery = 0

LoopInit ==
  /\ fn \in {"train", "test"}
  /\ max_steps \in Caps
  /\ num_batches \in 0..MaxBatches
  /\ pc = "entry"
  /\ iteration = 0
  /\ pulled = 0
  /\ executed = 0
  /\ total_samples = 0
  /\ model_mode \in {"train", "eval"}
  /\ params = 0
  /\ opt_steps = 0
  /\ result = "pending"
  /\ printed = <<>>
  /\ LabelsIdle
  /\ PipeIdle
  /\ DriverIdle
  /\ AdapterIdle

\* lines 477-486 / 525-537: the cap checks, model.train()/model.eval(), the totals
Entry(f, mode) ==
  /\ pc = "entry"
  /\ fn = f
  /\ IF max_steps.kind = "None"
       THEN /\ max_steps' = Inf
            /\ model_mode' = mode
            /\ pc' = "loop"
            /\ result' = result
       ELSE IF CapNonPositive(max_steps)
         THEN /\ pc' = "returned"
              /\ result' = "None"
              /\ UNCHANGED <<max_steps, model_mode>>
         ELSE /\ model_mode' = mode
              /\ pc' = "loop"
              /\ UNCHANGED <<max_steps, result>>
  /\ total_samples' = IF pc' = "loop" THEN 0 ELSE total_samples
  /\ UNCHANGED <<fn, num_batches, iteration, pulled, executed, params, opt_steps,
                 printed>>
  /\ UNCHANGED notLoopVars

\* one turn of `for iteration, data in enumerate(dataloader, 1)`
Iterate(f, updates) ==
  /\ pc = "loop"
  /\ fn = f
  /\ IF pulled < num_batches
       THEN /\ pulled' = pulled + 1
            /\ iteration' = iteration + 1
            /\ IF ExceedsCap(iteration', max_steps)
                 THEN /\ pc' = "finish"
                      /\ UNCHANGED <<executed, total_samples, params, opt_steps,
                                     printed>>
                 ELSE /\ pc' = "loop"
                      /\ executed' = executed + 1
                      /\ total_samples' = total_samples + BatchLen
                      /\ printed' = IF IsProgressTurn(iteration')
                                      THEN Append(printed, iteration') ELSE printed
                      /\ params' = IF updates THEN params + 1 ELSE params
                      /\ opt_steps' = IF updates THEN opt_steps + 1 ELSE opt_steps
       ELSE /\ pc' = "finish"
            /\ UNCHANGED <<pulled, iteration, executed, total_samples, params,
                           opt_steps, printed>>
  /\ UNCHANGED <<fn, max_steps, num_batches, model_mode, result>>
  /\ UNCHANGED notLoopVars

\* `mean_loss = total_loss / total_samples` (and accuracy), then return
Finish(f) ==
  /\ pc = "finish"
  /\ fn = f
  /\ IF total_samples = 0
       THEN pc' = "raised" /\ result' = "ZeroDivisionError"
       ELSE pc' = "returned" /\ result' = "value"
  /\ UNCHANGED <<fn, max_steps, num_batches, iteration, pulled, executed,
                 total_samples, model_mode, params, opt_steps, printed>>
  /\ UNCHANGED notLoopVars

train_entry == Entry("train", "train")
train_iterate == Iterate("train", TRUE)
train_finish == Finish("train")
test_entry == Entry("test", "eval")
\* faulty variant: the evaluation loop steps the optimizer like the training loop
test_iterate_updating == Iterate("test", TRUE)

test_iterate == Iterate("test", FALSE)
test_finish == Finish("test")

LoopNext ==
  \/ train_entry
  \/ train_iterate
  \/ train_finish
  \/ test_entry
  \/ test_iterate
  \/ test_finish

SpecLoop == LoopInit /\ [][LoopNext]_vars

\* ---- calls long enough to reach the progress cadence ----
MaxHundreds == 2

\* the numbers within one of a multiple of the cadence
NearHundreds ==
  {n \in 0..(MaxHundreds * ProgressEvery + 1) :
     \E k \in 0..MaxHundreds : n - k * ProgressEvery \in -1..1}

\* dataloaders that end just before, at or just after a progress turn
LongBatches == NearHundreds

\* no cap, or a cap at or just above such a number
LongCaps ==
  {NoCap} \cup {Num(n * CapDen + e, CapDen) : n \in NearHundreds, e \in 0..1}

LongLoopInit ==
  /\ fn \in {"train", "test"}
  /\ max_steps \in LongCaps
  /\ num_batches \in LongBatches
  /\ pc = "entry"
  /\ iteration = 0
  /\ pulled = 0
  /\ executed = 0
  /\ total_samples = 0
  /\ model_mode \in {"train", "eval"}
  /\ params = 0
  /\ opt_steps = 0
  /\ result = "pending"
  /\ printed = <<>>
  /\ LabelsIdle
  /\ PipeIdle
  /\ DriverIdle
  /\ AdapterIdle

SpecLoopLong == LongLoopInit /\ [][LoopNext]_vars

(***************************************************************************)
(* classes_to_int / int_to_classes (lines 215-218) and their users         *)
(*                                                                         *)
(* A language label is modelled as a number of 1..MaxLabel; the order of   *)
(* the numbers stands for the order sorted() puts the strings in.          *)
(***************************************************************************)
MaxLabel == 3
MaxTrainLen == 3

Labels == 1..MaxLabel

Range(s) == {s[i] : i \in DOMAIN s}

RECURSIVE Ascending(_)
\* the elements of a finite set of labels as an ascending sequence
Ascending(S) ==
  IF S = {} THEN <<>>
  ELSE LET m == CHOOSE x \in S : \A y \in S : x <= y
       IN  <<m>> \o Ascending(S \ {m})

RECURSIVE InsertSorted(_, _)
\* a sorted sequence with one more element put in its place
InsertSorted(s, x) ==
  IF s = <<>> THEN <<x>>
  ELSE IF x <= Head(s) THEN <<x>> \o s
  ELSE <<Head(s)>> \o InsertSorted(Tail(s), x)

RECURSIVE SortedList(_)
\* faulty variant: sorted(...) of the labels without set(...), duplicates kept
SortedList(records) ==
  IF records = <<>> THEN <<>>
  ELSE InsertSorted(SortedList(Tail(records)), Head(records))

\* sorted(set(x["language"] for x in train_data_pipe))
SortedSet(records) == Ascending(Range(records))

\* {y: i for i, y in enumerate(seq)}: a later item overwrites an earlier one
EnumerateDict(seq) ==
  [y \in Range(seq) |->
     (CHOOSE i \in DOMAIN seq : seq[i] = y /\ \A j \in DOMAIN seq : seq[j] = y => j <= i) - 1]

\* lines 215-217
ClassesToInt(records) == EnumerateDict(SortedSet(records))

\* faulty variant: the inverse mapping keyed from 1 instead of from 0
IntToClassesFromOne(c2i) ==
  [i \in {c2i[y] + 1 : y \in DOMAIN c2i} |->
     CHOOSE y \in DOMAIN c2i : c2i[y] + 1 = i]

\* line 218: {i: y for (y, i) in classes_to_int.items()}; the items come in
\* insertion order, which is ascending label order, and a later one overwrites
IntToClasses(c2i) ==
  [i \in {c2i[y] : y \in DOMAIN c2i} |->
     CHOOSE y \in DOMAIN c2i : c2i[y] = i /\ \A z \in DOMAIN c2i : c2i[z] = i => z <= y]

RECURSIVE SeqsUpTo(_, _)
\* the sequences over S of length at most n
SeqsUpTo(S, n) ==
  IF n = 0 THEN {<<>>}
  ELSE LET shorter == SeqsUpTo(S, n - 1)
       IN  shorter \cup {Append(s, x) : s \in shorter, x \in S}

LabelsInit ==
  /\ train_records \in SeqsUpTo(Labels, MaxTrainLen)
  /\ classes_to_int = <<>>
  /\ int_to_classes = <<>>
  /\ lpc = "start"
  /\ targets = -1
  /\ target_of = 0
  /\ pred_lang = 0
  /\ LoopIdle
  /\ PipeIdle
  /\ DriverIdle
  /\ AdapterIdle

\* the cell of lines 215-218
build_classes ==
  /\ lpc = "start"
  /\ classes_to_int' = ClassesToInt(train_records)
  /\ int_to_classes' = IntToClasses(classes_to_int')
  /\ lpc' = "built"
  /\ UNCHANGED <<train_records, targets, target_of, pred_lang>>
  /\ UNCHANGED notLabelVars

\* faulty variant: a lookup that registers a label it has not seen (setdefault)
unpack_row_setdefault(x) ==
  /\ lpc = "built"
  /\ classes_to_int' =
       IF x \in DOMAIN classes_to_int THEN classes_to_int
       ELSE [y \in DOMAIN classes_to_int \cup {x} |->
               IF y = x THEN Cardinality(DOMAIN classes_to_int) ELSE classes_to_int[y]]
  /\ targets' = classes_to_int'[x]
  /\ target_of' = x
  /\ UNCHANGED <<train_records, int_to_classes, lpc, pred_lang>>
  /\ UNCHANGED notLabelVars

\* unpack_row(x) (lines 276-292) on a record whose language is x, as the map
\* stage of a train or test pass calls it: `targets = classes_to_int[x["language"]]`
\* raises KeyError for a label that is no key
unpack_row(x) ==
  /\ lpc = "built"
  /\ IF x \in DOMAIN classes_to_int
       THEN /\ targets' = classes_to_int[x]
            /\ target_of' = x
            /\ lpc' = lpc
       ELSE /\ lpc' = "failed"
            /\ UNCHANGED <<targets, target_of>>
  /\ UNCHANGED <<train_records, classes_to_int, int_to_classes, pred_lang>>
  /\ UNCHANGED notLabelVars

\* a record of the training record set goes through the map stage
train_pass_record == \E i \in DOMAIN train_records : unpack_row(train_records[i])

\* a record of the test record set (any label) goes through the map stage
test_pass_record == \E x \in Labels : unpack_row(x)

\* lines 782-783: y_pred is an index of the model's output vector, which has
\* len(classes_to_int) entries (line 600); `pred_lang = int_to_classes[y_pred]`
inference ==
  /\ lpc = "built"
  /\ \E y_pred \in 0..(Cardinality(DOMAIN classes_to_int) - 1) :
       IF y_pred \in DOMAIN int_to_classes
         THEN pred_lang' = int_to_classes[y_pred] /\ lpc' = lpc
         ELSE pred_lang' = pred_lang /\ lpc' = "failed"
  /\ UNCHANGED <<train_records, classes_to_int, int_to_classes, targets, target_of>>
  /\ UNCHANGED notLabelVars

LabelsNext ==
  \/ build_classes
  \/ train_pass_record
  \/ test_pass_record
  \/ inference

SpecLabels == LabelsInit /\ [][LabelsNext]_vars

(***************************************************************************)
(* get_train_dataset / get_test_dataset (lines 311-323), iterated once.    *)
(*                                                                         *)
(* The stages are torch datapipes.  shuffle(buffer_size) appends each      *)
(* source item to its buffer until the buffer holds buffer_size items,     *)
(* then swaps the new item with a randomly chosen buffered one and yields  *)
(* that; at the end of the source it pops and yields random items until    *)
(* the buffer is empty.  sharding_filter() yields item number i (from 0)   *)
(* in the instance with id i % num_of_instances; there is one instance     *)
(* when the DataLoader has no workers.  map(f) yields f(item) and lets an  *)
(* exception of f end the iteration.  A yielded item goes through the      *)
(* later stages at once: there is no queue between stages.  An item is     *)
(* identified by its position in the source.                               *)
(***************************************************************************)
MaxSrcLen == 4
MaxSrcLabel == 2
MaxBufferSize == 2
MaxWorkers == 3

\* faulty variant: the evaluation pipeline built with the shuffle stage as well
get_test_dataset_shuffled == <<"shuffle", "sharding_filter", "map">>

\* lines 311-316
get_train_dataset == <<"shuffle", "sharding_filter", "map">>

\* lines 319-323
get_test_dataset == <<"sharding_filter", "map">>

\* the training record set the mapping is built from when the test set is iterated
KnownTrainRecords == <<1>>

\* the first stage of the datapipe is the shuffle
ShuffleFirst == Len(dataset) >= 1 /\ dataset[1] = "shuffle"

\* the copies of the pipeline: one per worker, one in all without workers
NumInstances == IF num_workers >= 1 THEN num_workers ELSE 1

Instances == 0..(NumInstances - 1)

\* faulty variant: sharding never applied, every instance yields every item
ShardNotApplied(i, w, n) == TRUE

\* sharding_filter: `if i % self.num_of_instances == self.instance_id: yield item`
ShardPasses(i, w, n) == i % n = w

\* faulty variant: the buffer is taken as full one item late
BufferFullLate(buf, size) == Len(buf) = size + 1

\* shuffle: `if len(self._buffer) == self.buffer_size`
BufferFull(buf, size) == Len(buf) = size

\* faulty variant: the new item is not stored in the place of the yielded one
SwappedLost(buf, idx, x) == buf

\* shuffle: `val, self._buffer[idx] = self._buffer[idx], x`
Swapped(buf, idx, x) == [buf EXCEPT ![idx] = x]

\* shuffle: `self._buffer.pop(idx)`
Popped(buf, idx) == [k \in 1..(Len(buf) - 1) |-> IF k < idx THEN buf[k] ELSE buf[k + 1]]

\* `classes_to_int[x["language"]]` finds its key
KnownLabel(x) == x \in DOMAIN classes_to_int

\* what unpack_row returns for the record at source position k
Unpacked(k) == [pos |-> k, targets |-> classes_to_int[src[k]]]

\* faulty variant: a failure of the mapped function is swallowed and the
\* iteration goes on with the next record
RunningAlways == TRUE

\* no instance has raised
Running == \A w \in Instances : map_state[w] = "running"

PipeInit ==
  /\ dataset \in {get_train_dataset, get_test_dataset}
  /\ src \in SeqsUpTo(1..MaxSrcLabel, MaxSrcLen)
  /\ buffer_size \in 1..MaxBufferSize
  /\ num_workers \in 0..MaxWorkers
  /\ src_pos = 0
  /\ shuffle_buffer = <<>>
  /\ shuffle_out = <<>>
  /\ shard_seen = 0
  /\ shard_out = [w \in Instances |-> <<>>]
  /\ map_out = [w \in Instances |-> <<>>]
  /\ map_state = [w \in Instances |-> "running"]
  \* the mapping was built from the training record set before (lines 215-218)
  /\ train_records = IF ShuffleFirst THEN src ELSE KnownTrainRecords
  /\ classes_to_int = ClassesToInt(train_records)
  /\ int_to_classes = IntToClasses(classes_to_int)
  /\ lpc = "built"
  /\ targets = -1
  /\ target_of = 0
  /\ pred_lang = 0
  /\ LoopIdle
  /\ DriverIdle
  /\ AdapterIdle

\* item k, yielded by the stage before, goes through sharding_filter and map
\* in every instance
Downstream(k) ==
  LET i == shard_seen
      passes(w) == ShardPasses(i, w, NumInstances)
  IN  /\ shard_seen' = i + 1
      /\ shard_out' = [w \in Instances |->
                         IF passes(w) THEN Append(shard_out[w], k) ELSE shard_out[w]]
      /\ map_out' = [w \in Instances |->
                       IF passes(w) /\ KnownLabel(src[k])
                         THEN Append(map_out[w], Unpacked(k)) ELSE map_out[w]]
      /\ map_state' = [w \in Instances |->
                         IF passes(w) /\ ~KnownLabel(src[k])
                           THEN "KeyError" ELSE map_state[w]]

PipeFrame == UNCHANGED <<dataset, src, buffer_size, num_workers>> /\ UNCHANGED notPipeVars

\* shuffle pulls a source item while its buffer is not full: `self._buffer.append(x)`
shuffle_fill ==
  /\ Running
  /\ ShuffleFirst
  /\ src_pos < Len(src)
  /\ ~BufferFull(shuffle_buffer, buffer_size)
  /\ src_pos' = src_pos + 1
  /\ shuffle_buffer' = Append(shuffle_buffer, src_pos + 1)
  /\ UNCHANGED <<shuffle_out, shard_seen, shard_out, map_out, map_state>>
  /\ PipeFrame

\* shuffle pulls a source item with a full buffer: a random buffered item is
\* yielded and the new one takes its place
shuffle_swap ==
  /\ Running
  /\ ShuffleFirst
  /\ src_pos < Len(src)
  /\ BufferFull(shuffle_buffer, buffer_size)
  /\ \E idx \in 1..Len(shuffle_buffer) :
       /\ shuffle_buffer' = Swapped(shuffle_buffer, idx, src_pos + 1)
       /\ shuffle_out' = Append(shuffle_out, shuffle_buffer[idx])
       /\ Downstream(shuffle_buffer[idx])
  /\ src_pos' = src_pos + 1
  /\ PipeFrame

\* the source is exhausted: `while self._buffer: yield self._buffer.pop(idx)`
shuffle_drain ==
  /\ Running
  /\ ShuffleFirst
  /\ src_pos = Len(src)
  /\ shuffle_buffer # <<>>
  /\ \E idx \in 1..Len(shuffle_buffer) :
       /\ shuffle_buffer' = Popped(shuffle_buffer, idx)
       /\ shuffle_out' = Append(shuffle_out, shuffle_buffer[idx])
       /\ Downstream(shuffle_buffer[idx])
  /\ UNCHANGED src_pos
  /\ PipeFrame

\* without a shuffle stage the source item goes to sharding_filter directly
source_next ==
  /\ Running
  /\ ~ShuffleFirst
  /\ src_pos < Len(src)
  /\ src_pos' = src_pos + 1
  /\ Downstream(src_pos + 1)
  /\ UNCHANGED <<shuffle_buffer, shuffle_out>>
  /\ PipeFrame

PipeNext ==
  \/ shuffle_fill
  \/ shuffle_swap
  \/ shuffle_drain
  \/ source_next

SpecPipe == PipeInit /\ [][PipeNext]_vars

\* the consumer keeps asking for the next item until the iteration ends
SpecPipeFair == SpecPipe /\ WF_vars(PipeNext)

(***************************************************************************)
(* The epoch driver (lines 695-717).  A pass of train or test is one step  *)
(* here; what it returns is computed by running its loop.                  *)
(***************************************************************************)
\* line 246
NUM_TRAIN_SAMPLES == 203388
\* line 247
NUM_TEST_SAMPLES == 206448

\* ---- bounds of the driver model ----
MaxEpochNum == 5
EpochDen == 2
FracDen == 2

\* NUM_TRAIN_EPOCHS values: 0, 1/EpochDen, ... (non-negative)
EpochChoices == {Num(n, EpochDen) : n \in 0..MaxEpochNum}

\* FRACTION_TEST values in [0, 1]
FractionChoices == {Num(n, FracDen) : n \in 0..FracDen}

\* TRAIN_BATCH_SIZE values: an epoch of 4 batches, or of a single batch
TrainBatchChoices == {50847, 203388}

\* TEST_BATCH_SIZE values: a test set of 4 batches, or of a single batch
TestBatchChoices == {51612, 206448}

\* int(x) of a non-negative float
IntOf(r) == r.num \div r.den

\* the number of batches a DataLoader over n records yields (drop_last=False)
BatchesOf(n, batch_size) == (n + batch_size - 1) \div batch_size

RECURSIVE LoopCount(_, _, _)
\* how often the body of `for iteration, data in enumerate(dataloader, 1)` runs
\* after `it` turns, with nb batches in the dataloader
LoopCount(it, ms, nb) ==
  IF it >= nb THEN it
  ELSE IF ExceedsCap(it + 1, ms) THEN it
  ELSE LoopCount(it + 1, ms, nb)

\* what train(..., max_steps=ms) / test(..., max_steps=ms) does over nb batches:
\* "None" (the early return), "ZeroDivisionError" or "value"
PassOutcome(ms, nb) ==
  IF ms.kind # "None" /\ CapNonPositive(ms) THEN "None"
  ELSE IF LoopCount(0, IF ms.kind = "None" THEN Inf ELSE ms, nb) = 0
    THEN "ZeroDivisionError"
  ELSE "value"

\* line 698: (NUM_EPOCHS - whole_epochs) * NUM_TRAIN_SAMPLES / TRAIN_BATCH_SIZE
RemainderSteps(ne, whole, batch_size) ==
  Num((ne.num - whole * ne.den) * NUM_TRAIN_SAMPLES, ne.den * batch_size)

\* lines 699-701
MaxTestSteps(ft, batch_size) ==
  IF ft.num # ft.den THEN Num(ft.num * NUM_TEST_SAMPLES, ft.den * batch_size)
  ELSE NoCap

Init ==
  /\ NUM_EPOCHS \in EpochChoices
  /\ FRACTION_TEST \in FractionChoices
  /\ TRAIN_BATCH_SIZE \in TrainBatchChoices
  /\ TEST_BATCH_SIZE \in TestBatchChoices
  /\ dpc = "setup"
  /\ whole_epochs = 0
  /\ remainder_train_steps = Num(0, 1)
  /\ max_test_steps = NoCap
  /\ epoch = 0
  /\ next_epoch = 0
  /\ train_loss = "unset"
  /\ test_result = "unset"
  /\ log = <<>>
  /\ derr = "none"
  /\ LoopIdle
  /\ LabelsIdle
  /\ PipeIdle
  /\ AdapterIdle

DriverFrame ==
  /\ UNCHANGED <<NUM_EPOCHS, FRACTION_TEST, TRAIN_BATCH_SIZE, TEST_BATCH_SIZE>>
  /\ UNCHANGED notDriverVars

\* lines 697-703
driver_setup ==
  /\ dpc = "setup"
  /\ whole_epochs' = IntOf(NUM_EPOCHS)
  /\ remainder_train_steps' = RemainderSteps(NUM_EPOCHS, whole_epochs', TRAIN_BATCH_SIZE)
  /\ max_test_steps' = MaxTestSteps(FRACTION_TEST, TEST_BATCH_SIZE)
  /\ epoch' = 0
  /\ next_epoch' = 0
  /\ dpc' = "for"
  /\ UNCHANGED <<train_loss, test_result, log, derr>>
  /\ DriverFrame

\* line 704: `for epoch in range(whole_epochs)`
epoch_next ==
  /\ dpc = "for"
  /\ IF next_epoch < whole_epochs
       THEN /\ epoch' = next_epoch
            /\ next_epoch' = next_epoch + 1
            /\ dpc' = "train"
       ELSE /\ dpc' = "if_remainder"
            /\ UNCHANGED <<epoch, next_epoch>>
  /\ UNCHANGED <<whole_epochs, remainder_train_steps, max_test_steps, train_loss,
                 test_result, log, derr>>
  /\ DriverFrame

\* `train_loss = train(model, optimizer, train_dataloader[, max_steps=ms])`
TrainPass(at, ms, then) ==
  /\ dpc = at
  /\ log' = Append(log, [op |-> "train", cap |-> ms])
  /\ LET out == PassOutcome(ms, BatchesOf(NUM_TRAIN_SAMPLES, TRAIN_BATCH_SIZE))
     IN  IF out = "ZeroDivisionError"
           THEN dpc' = "error" /\ derr' = out /\ UNCHANGED train_loss
           ELSE dpc' = then /\ train_loss' = out /\ UNCHANGED derr
  /\ UNCHANGED <<whole_epochs, remainder_train_steps, max_test_steps, epoch,
                 next_epoch, test_result>>
  /\ DriverFrame

\* `test_loss, test_accuracy = test(model, test_dataloader, max_steps=max_test_steps)`:
\* unpacking None raises TypeError
TestPass(at, then) ==
  /\ dpc = at
  /\ log' = Append(log, [op |-> "test", cap |-> max_test_steps])
  /\ LET out == PassOutcome(max_test_steps, BatchesOf(NUM_TEST_SAMPLES, TEST_BATCH_SIZE))
     IN  IF out = "value"
           THEN dpc' = then /\ test_result' = out /\ UNCHANGED derr
           ELSE /\ dpc' = "error"
                /\ derr' = (IF out = "None" THEN "TypeError" ELSE out)
                /\ UNCHANGED test_result
  /\ UNCHANGED <<whole_epochs, remainder_train_steps, max_test_steps, epoch,
                 next_epoch, train_loss>>
  /\ DriverFrame

\* the print of the epoch summary: `{train_loss:.2f}` raises TypeError for None
PrintSummary(at, then) ==
  /\ dpc = at
  /\ IF train_loss = "None"
       THEN dpc' = "error" /\ derr' = "TypeError" /\ UNCHANGED log
       ELSE /\ dpc' = then
            /\ log' = Append(log, [op |-> "summary", cap |-> NoCap])
            /\ UNCHANGED derr
  /\ UNCHANGED <<whole_epochs, remainder_train_steps, max_test_steps, epoch,
                 next_epoch, train_loss, test_result>>
  /\ DriverFrame

\* line 705
epoch_train == TrainPass("train", NoCap, "test")
\* line 706
epoch_test == TestPass("test", "print")
\* lines 707-710
epoch_print == PrintSummary("print", "for")

\* line 711: `if remainder_train_steps:`
remainder_check ==
  /\ dpc = "if_remainder"
  /\ dpc' = IF remainder_train_steps.num # 0 THEN "rem_train" ELSE "done"
  /\ UNCHANGED <<whole_epochs, remainder_train_steps, max_test_steps, epoch,
                 next_epoch, train_loss, test_result, log, derr>>
  /\ DriverFrame

\* line 712
remainder_train == TrainPass("rem_train", remainder_train_steps, "rem_test")
\* line 713
remainder_test == TestPass("rem_test", "rem_print")
\* lines 714-717
remainder_print == PrintSummary("rem_print", "done")

Next ==
  \/ driver_setup
  \/ epoch_next
  \/ epoch_train
  \/ epoch_test
  \/ epoch_print
  \/ remainder_check
  \/ remainder_train
  \/ remainder_test
  \/ remainder_print

Spec == Init /\ [][Next]_vars

(***************************************************************************)
(* The adapter's datapipe: ta_factory.as_datapipe(record_set=...,          *)
(* specification=...) of lines 119-126, iterated once per pass by the      *)
(* DataLoaders of the epoch driver (lines 704-713).  The adapter is        *)
(* library code of the repository outside the notebook; it is modelled     *)
(* from its contract: lazy, restartable, in the schema reader's order,     *)
(* NotFound for an unknown record set, a decoding failure aborts.          *)
(***************************************************************************)
MaxRecords == 2
MaxRaw == 2
MaxIterations == 3

\* the record sets the metadata document declares
RecordSetNames == {"train", "test"}

\* raw field values as stored; 0 stands for bytes that cannot be decoded
RawValues == 0..MaxRaw

\* the specification's decoding of a stored value to the declared type
Decodable(raw) == raw # 0

Decoded(raw) == [text |-> raw]

\* faulty variant: a one-shot iterator, a later iteration goes on where the
\* one before stopped
RewindNever(c) == c

\* a new iteration starts at the reader's first record
Rewind(c) == 0

AdapterInit ==
  /\ reader \in [RecordSetNames -> SeqsUpTo(RawValues, MaxRecords)]
  /\ record_set \in RecordSetNames \cup {"unknown"}
  /\ apc = "start"
  /\ cursor = 0
  /\ yielded = <<>>
  /\ iterations = 0
  /\ completed = 0
  /\ LoopIdle
  /\ LabelsIdle
  /\ PipeIdle
  /\ DriverIdle

AdapterFrame == UNCHANGED <<reader, record_set>> /\ UNCHANGED notAdapterVars

\* ta_factory.as_datapipe(record_set=..., specification=...): nothing is read
\* yet; an unknown record set fails here
as_datapipe ==
  /\ apc = "start"
  /\ apc' = IF record_set \in DOMAIN reader THEN "created" ELSE "NotFound"
  /\ UNCHANGED <<cursor, yielded, iterations, completed>>
  /\ AdapterFrame

\* a DataLoader starts iterating the datapipe: the first time, after a
\* complete iteration, or after an iteration the consumer left early
\* (`if iteration > max_steps: break`)
iter_start ==
  /\ apc \in {"created", "iterating", "exhausted"}
  /\ iterations < MaxIterations
  /\ apc' = "iterating"
  /\ cursor' = Rewind(cursor)
  /\ yielded' = <<>>
  /\ iterations' = iterations + 1
  /\ UNCHANGED completed
  /\ AdapterFrame

\* the consumer asks for the next record: the reader's next record is decoded
\* and yielded, or its decoding fails
adapter_next ==
  /\ apc = "iterating"
  /\ cursor < Len(reader[record_set])
  /\ LET raw == reader[record_set][cursor + 1]
     IN  IF Decodable(raw)
           THEN /\ yielded' = Append(yielded, Decoded(raw))
                /\ cursor' = cursor + 1
                /\ apc' = apc
           ELSE /\ apc' = "DecodeError"
                /\ UNCHANGED <<yielded, cursor>>
  /\ UNCHANGED <<iterations, completed>>
  /\ AdapterFrame

\* the reader has no further record: the iteration is complete
adapter_stop ==
  /\ apc = "iterating"
  /\ cursor = Len(reader[record_set])
  /\ apc' = "exhausted"
  /\ completed' = completed + 1
  /\ UNCHANGED <<cursor, yielded, iterations>>
  /\ AdapterFrame

AdapterNext ==
  \/ as_datapipe
  \/ iter_start
  \/ adapter_next
  \/ adapter_stop

SpecAdapter == AdapterInit /\ [][AdapterNext]_vars

(***************************************************************************)
(* Properties of train / test                                              *)
(***************************************************************************)
Terminal == pc \in {"returned", "raised"}

\* the call had a finite step cap (max_steps was not None)
Capped == max_steps.kind = "num"

\* C1 (as amended): when train or test has ended, the loop body has run
\* exactly min(floor(cap), available batches) times for a cap >= 0 (so a
\* non-integer cap is rounded down), and once per available batch when there
\* is no cap; before that it never ran more often.
C1_BodyRunsFloorOfCap ==
  LET expected == IF Capped THEN Min(Floor(max_steps), num_batches)
                            ELSE num_batches
  IN  /\ executed <= expected
      /\ Terminal => executed = expected

\* C1 witness: a call with a non-integer cap below the number of batches has
\* returned after at least one turn of the loop.
C1_Witness ==
  /\ pc = "returned"
  /\ Capped
  /\ max_steps.num % max_steps.den # 0
  /\ executed >= 1
  /\ executed < num_batches

\* C1 as originally stated: when the call has ended the loop body has run
\* exactly min(cap, available batches) times, whatever non-negative cap.
C1_BodyRunsMinOfCap ==
  (Terminal /\ Capped) =>
    executed * max_steps.den = Min(max_steps.num, num_batches * max_steps.den)

\* C2: a call of train or test with a step cap of zero returns None in its
\* first step without raising, pulls no batch, performs no optimizer step and
\* leaves the parameters, the train/eval mode and the optimizer state as they
\* were.
C2_ZeroCapIsNoOp ==
  [][(pc = "entry" /\ Capped /\ max_steps.num = 0) =>
       /\ pc' = "returned"
       /\ result' = "None"
       /\ UNCHANGED <<pulled, executed, iteration, model_mode, params, opt_steps,
                      total_samples>>]_vars

\* C2 witness: a call with cap zero has returned, with batches available.
C2_Witness ==
  /\ pc = "returned"
  /\ Capped
  /\ max_steps.num = 0
  /\ result = "None"
  /\ num_batches > 0
  /\ pulled = 0

\* C3: with a cap greater than zero and below the number of available batches
\* train and test end by returning their result, never by raising.
C3_TruncatesWithoutError ==
  (Terminal /\ Capped /\ max_steps.num > 0
     /\ max_steps.num < num_batches * max_steps.den) => result = "value"

(***************************************************************************)
(* Properties of the label mapping                                         *)
(***************************************************************************)
\* the cell that builds the mappings has run
Built == lpc \in {"built", "failed"}

\* the records in another order
Reordered(records, p) == [i \in DOMAIN records |-> records[p[i]]]

\* C4: once built, classes_to_int maps the distinct training labels one-to-one
\* onto 0..n-1 in ascending label order, any reordering of the training
\* records builds the same mapping, and int_to_classes is its inverse in both
\* directions.
C4_MappingIsSortedBijection ==
  Built =>
    LET distinct == Range(train_records)
        n == Cardinality(distinct)
    IN  /\ DOMAIN classes_to_int = distinct
        /\ {classes_to_int[y] : y \in distinct} = 0..(n - 1)
        /\ \A y1, y2 \in distinct : y1 < y2 => classes_to_int[y1] < classes_to_int[y2]
        /\ \A p \in Permutations(DOMAIN train_records) :
             ClassesToInt(Reordered(train_records, p)) = classes_to_int
        /\ DOMAIN int_to_classes = 0..(n - 1)
        /\ \A y \in distinct : int_to_classes[classes_to_int[y]] = y
        /\ \A i \in 0..(n - 1) : classes_to_int[int_to_classes[i]] = i

\* C4 witness: the mappings are built from three records that repeat a label
\* and are not in label order.
C4_Witness ==
  /\ lpc = "built"
  /\ Len(train_records) = 3
  /\ Cardinality(Range(train_records)) = 2
  /\ train_records[1] > train_records[2]
  /\ Cardinality(DOMAIN int_to_classes) = 2

\* C5: once the mappings are built no step of the run (a record of a train or
\* test pass going through unpack_row, an inference lookup) changes
\* classes_to_int or int_to_classes, and every target and every inferred label
\* is the one the mapping built from the training records gives.
C5_MappingFrozen ==
  /\ [][Built => UNCHANGED <<classes_to_int, int_to_classes>>]_vars
  /\ [](Built =>
         /\ classes_to_int = ClassesToInt(train_records)
         /\ targets # -1 => targets = ClassesToInt(train_records)[target_of]
         /\ pred_lang # 0 => pred_lang \in DOMAIN ClassesToInt(train_records))

\* C5 witness: after the build a target has been looked up, a label inferred,
\* and a lookup of a label that is no key has failed.
C5_Witness ==
  /\ lpc = "failed"
  /\ targets # -1
  /\ pred_lang # 0
  /\ classes_to_int # <<>>

(***************************************************************************)
(* Properties of the datapipe stages                                       *)
(***************************************************************************)
\* what the sharding filter has been handed so far, in order
ShardInput == IF ShuffleFirst THEN shuffle_out ELSE [k \in 1..src_pos |-> k]

\* the iteration has ended normally: source exhausted, shuffle buffer drained
PipeDone == Running /\ src_pos = Len(src) /\ shuffle_buffer = <<>>

\* how many items of a sequence of source positions carry label l
CountLabel(items, l) == Cardinality({j \in DOMAIN items : src[items[j]] = l})

RECURSIVE SumOver(_, _)
\* the sum of f[w] over the instances of W
SumOver(f, W) ==
  IF W = {} THEN 0
  ELSE LET w == CHOOSE x \in W : TRUE IN f[w] + SumOver(f, W \ {w})

\* C6: with N >= 2 workers every item handed to the sharding filter is yielded
\* by exactly one instance, the one its position selects, and the instances'
\* outputs together are the input as a multiset (label by label, and in
\* number); with no worker or one worker the single instance yields every item
\* unchanged and in order.  When the iteration ends every source record has
\* been handed over.
C6_ShardPartitions ==
  /\ \A k \in DOMAIN ShardInput :
       /\ Cardinality({w \in Instances : ShardInput[k] \in Range(shard_out[w])}) = 1
       /\ ShardInput[k] \in Range(shard_out[(k - 1) % NumInstances])
  /\ SumOver([w \in Instances |-> Len(shard_out[w])], Instances) = Len(ShardInput)
  /\ \A l \in 1..MaxSrcLabel :
       SumOver([w \in Instances |-> CountLabel(shard_out[w], l)], Instances)
         = CountLabel(ShardInput, l)
  /\ num_workers <= 1 => shard_out[0] = ShardInput
  /\ PipeDone => Len(ShardInput) = Len(src)

\* C6 witness: three workers have each been given an item and the iteration of
\* four records, two with the same label, has ended.
C6_Witness ==
  /\ num_workers = 3
  /\ PipeDone
  /\ Len(src) = 4
  /\ src[1] = src[2]
  /\ \A w \in Instances : shard_out[w] # <<>>

\* the shuffle stage has ended: source exhausted and buffer drained
ShuffleExhausted == src_pos = Len(src) /\ shuffle_buffer = <<>>

\* C7: the shuffle stage of a finite source ends (the source is exhausted and
\* the buffer drained), and when it has ended it has yielded every source item
\* exactly once; it never yields an item twice.
C7_ShuffleEndsWithPermutation ==
  /\ <>(ShuffleFirst => ShuffleExhausted)
  /\ []((ShuffleFirst /\ ShuffleExhausted) =>
          /\ Len(shuffle_out) = Len(src)
          /\ Range(shuffle_out) = 1..Len(src))
  /\ [](\A j, k \in DOMAIN shuffle_out : shuffle_out[j] = shuffle_out[k] => j = k)

\* C7 witness: a shuffle with a buffer smaller than the source has ended and
\* did not yield the items in source order.
C7_Witness ==
  /\ ShuffleFirst
  /\ ShuffleExhausted
  /\ Len(src) = 4
  /\ buffer_size = 2
  /\ shuffle_out[1] = 2
  /\ shuffle_out[4] = 1

\* C8: the shuffle buffer never holds more than buffer_size items; the items
\* buffered and the items yielded are exactly the items pulled so far, each
\* once; and the item yielded k-th (counting from 1) is one of the first
\* k - 1 + buffer_size source items, hence one of the first k + buffer_size.
C8_ShuffleWindow ==
  /\ Len(shuffle_buffer) <= buffer_size
  /\ Range(shuffle_buffer) \cup Range(shuffle_out) = (IF ShuffleFirst THEN 1..src_pos ELSE {})
  /\ Len(shuffle_buffer) + Len(shuffle_out) = (IF ShuffleFirst THEN src_pos ELSE 0)
  /\ \A k \in DOMAIN shuffle_out : shuffle_out[k] <= k - 1 + buffer_size

\* C8 witness: the buffer is full, an item has been yielded, and it is the
\* last one the window allows.
C8_Witness ==
  /\ ShuffleFirst
  /\ buffer_size = 2
  /\ Len(shuffle_buffer) = buffer_size
  /\ Len(shuffle_out) >= 2
  /\ shuffle_out[2] = 3

\* the first source position whose label is no key, or Len(src) + 1
FirstUnknown ==
  LET bad == {k \in DOMAIN src : ~KnownLabel(src[k])}
  IN  IF bad = {} THEN Len(src) + 1 ELSE CHOOSE k \in bad : \A j \in bad : k <= j

\* the items of a sequence at the places instance w's sharding filter selects
Selected(items, w) ==
  LET picks == {k \in DOMAIN items : (k - 1) % NumInstances = w}
  IN  [j \in 1..Cardinality(picks) |-> items[(j - 1) * NumInstances + w + 1]]

\* C9: the training datapipe is shuffle, then sharding_filter, then map: the
\* sharding filter is handed what the shuffle yields, in that order, and the
\* map stage maps what the sharding filter yields.  The evaluation datapipe
\* is sharding_filter then map and has no shuffle: nothing is ever buffered
\* or reordered, and with no worker or one worker it yields the mapped source
\* records one for one in source order (all of them when the iteration ends;
\* those before the first record unpack_row fails on when it is aborted).
C9_StageOrder ==
  /\ \A w \in Instances :
       /\ shard_out[w] = Selected(ShardInput, w)
       /\ Len(map_out[w]) <= Len(shard_out[w])
       /\ \A j \in DOMAIN map_out[w] : map_out[w][j] = Unpacked(shard_out[w][j])
  /\ dataset = get_train_dataset =>
       /\ ShuffleFirst
       /\ shard_seen = Len(shuffle_out)
       /\ \A w \in Instances : Len(map_out[w]) = Len(shard_out[w])
  /\ dataset = get_test_dataset =>
       /\ shuffle_buffer = <<>> /\ shuffle_out = <<>>
       /\ num_workers <= 1 =>
            /\ \A j \in DOMAIN map_out[0] : map_out[0][j] = Unpacked(j)
            /\ PipeDone => Len(map_out[0]) = Len(src)
            /\ ~Running => Len(map_out[0]) = FirstUnknown - 1

\* C9 witness: the evaluation datapipe without workers has yielded the mapped
\* records of a whole source of four records.
C9_Witness ==
  /\ dataset = get_test_dataset
  /\ num_workers = 0
  /\ PipeDone
  /\ Len(src) = 4
  /\ Len(map_out[0]) = 4

(***************************************************************************)
(* Properties of the epoch driver                                          *)
(***************************************************************************)
\* the driver cell has ended, normally or by an exception
DriverStopped == dpc \in {"done", "error"}

\* the places of the log where a training pass without / with a cap started
UncappedTrains == {j \in DOMAIN log : log[j].op = "train" /\ log[j].cap.kind = "None"}
CappedTrains == {j \in DOMAIN log : log[j].op = "train" /\ log[j].cap.kind = "num"}

\* the fractional part of NUM_EPOCHS is not zero
HasFraction == NUM_EPOCHS.num % NUM_EPOCHS.den # 0

\* C10: a capped training pass starts only after int(NUM_EPOCHS) uncapped
\* passes, there is at most one, and its cap is
\* (NUM_EPOCHS - int(NUM_EPOCHS)) * NUM_TRAIN_SAMPLES / TRAIN_BATCH_SIZE; when
\* the driver has ended it has run int(NUM_EPOCHS) uncapped passes, and the
\* capped pass if and only if the fractional part of NUM_EPOCHS is not zero.
C10_FractionalPassAfterWholeEpochs ==
  /\ Cardinality(CappedTrains) <= 1
  /\ \A j \in CappedTrains :
       /\ {i \in UncappedTrains : i < j} = UncappedTrains
       /\ Cardinality(UncappedTrains) = IntOf(NUM_EPOCHS)
       /\ log[j].cap = RemainderSteps(NUM_EPOCHS, IntOf(NUM_EPOCHS), TRAIN_BATCH_SIZE)
  /\ DriverStopped =>
       /\ Cardinality(UncappedTrains) = IntOf(NUM_EPOCHS)
       /\ (CappedTrains # {}) <=> HasFraction

(***************************************************************************)
(* Further properties of train / test                                      *)
(***************************************************************************)
\* C11: train and test never divide by a zero sample count: whenever the mean
\* loss (and accuracy) is about to be computed after the loop, at least one
\* batch has been processed, so no call ends in ZeroDivisionError.
C11_NoDivisionByZeroSamples ==
  /\ pc = "finish" => total_samples > 0
  /\ result # "ZeroDivisionError"

\* C12: a test pass leaves the parameters and the optimizer state as they
\* were; a train pass has updated the parameters and stepped the optimizer
\* exactly once per executed turn of the loop, and the turn that the cap
\* rejects (a batch pulled, then `break`) updates nothing.
C12_UpdatesOnlyInTrain ==
  /\ [](fn = "test" => (params = 0 /\ opt_steps = 0))
  /\ [](fn = "train" => (params = executed /\ opt_steps = executed))
  /\ [][(pc = "loop" /\ pc' = "finish") => UNCHANGED <<params, opt_steps>>]_vars

\* C12 witness: a train pass has returned after three updates and one batch
\* that the cap rejected.
C12_Witness ==
  /\ fn = "train"
  /\ pc = "returned"
  /\ Capped
  /\ executed = 3
  /\ pulled = 4
  /\ opt_steps = 3

\* C15: in a train or test pass the progress lines printed so far are exactly
\* those of the executed turns whose number is a multiple of 100, in increasing
\* order, so a pass of n executed turns prints n \div 100 lines; no line is
\* printed once the loop has ended (by the cap or by the end of the data).
C15_ProgressEveryHundred ==
  /\ [](printed = [j \in 1..(executed \div 100) |-> j * 100])
  /\ [][pc # "loop" => UNCHANGED printed]_vars
  /\ [][(pc = "loop" /\ pc' = "finish") => UNCHANGED printed]_vars

\* C15 witness: a pass that the cap stopped after 200 turns, with a 201st
\* batch pulled and rejected, has returned having printed two lines.
C15_Witness ==
  /\ pc = "returned"
  /\ Capped
  /\ executed = 200
  /\ pulled = 201
  /\ printed = <<100, 200>>

\* ---- Failure of the mapped function ----

\* unpack_row raised in some instance
Failed == \E w \in Instances : map_state[w] = "KeyError"

\* the records instance w has emitted are the mapped images of the first
\* records that reached its map stage, in order
EmittedPrefix(w) ==
  /\ Len(map_out[w]) <= Len(shard_out[w])
  /\ \A j \in 1..Len(map_out[w]) :
       /\ KnownLabel(src[shard_out[w][j]])
       /\ map_out[w][j] = Unpacked(shard_out[w][j])

\* C14: when unpack_row fails on a record the failure is the outcome of the
\* iteration: the failing record is the last one pulled into the map stage and
\* has an unknown label, it is not emitted and not passed over (everything that
\* reached the stage before it was emitted, nothing else was), and from then on
\* nothing is pulled, emitted or retried.
C14_MapFailureAborts ==
  /\ [](\A w \in Instances : EmittedPrefix(w))
  /\ [](\A w \in Instances :
          IF map_state[w] = "KeyError"
            THEN /\ shard_out[w] # <<>>
                 /\ Len(map_out[w]) = Len(shard_out[w]) - 1
                 /\ ~KnownLabel(src[shard_out[w][Len(shard_out[w])]])
                 /\ ShardInput[Len(ShardInput)] = shard_out[w][Len(shard_out[w])]
            ELSE Len(map_out[w]) = Len(shard_out[w]))
  /\ [][Failed => UNCHANGED pipeVars]_vars
  /\ [][Failed => Failed']_vars

\* C14 witness: the test set <<1, 2, 1>> read without workers has failed on its
\* second record, whose label is not a key; the first record was emitted and
\* the third, whose label is a key, was never pulled.
C14_Witness ==
  /\ dataset = get_test_dataset
  /\ num_workers = 0
  /\ src = <<1, 2, 1>>
  /\ map_state[0] = "KeyError"
  /\ src_pos = 2
  /\ map_out[0] = <<Unpacked(1)>>

\* ---- The inverse mapping and the model's predictions ----

\* C17: once the mappings are built the keys of int_to_classes are exactly
\* 0 .. len(classes_to_int) - 1, the indices the model can predict; so the lookup
\* int_to_classes[y_pred] is defined for each of them, it inverts classes_to_int,
\* and the label it returns (and any label inference has printed) occurs in the
\* training record set.
C17_InferenceLookupTotal ==
  Built =>
    LET n == Cardinality(DOMAIN classes_to_int)
    IN  /\ DOMAIN int_to_classes = 0..(n - 1)
        /\ \A y_pred \in 0..(n - 1) :
             /\ int_to_classes[y_pred] \in Range(train_records)
             /\ classes_to_int[int_to_classes[y_pred]] = y_pred
        /\ pred_lang # 0 => pred_lang \in Range(train_records)

\* C17 witness: with the training labels <<3, 1, 3>> the model has two outputs
\* and inference has looked up the highest index, 1, and got label 3.
C17_Witness ==
  /\ lpc = "built"
  /\ train_records = <<3, 1, 3>>
  /\ Cardinality(DOMAIN classes_to_int) = 2
  /\ pred_lang = 3
  /\ int_to_classes[1] = 3

\* ---- The cycle of the epoch driver ----

\* the places of the log where a summary line was printed
Summaries == {j \in DOMAIN log : log[j].op = "summary"}

\* C16: the log of the driver repeats training pass, test pass, summary line
\* in this order; no pass of the driver raises; and when the driver has stopped
\* it has printed int(NUM_EPOCHS) summary lines, and one more when the
\* fractional part of NUM_EPOCHS is not zero.
C16_EveryEpochTrainedTestedPrinted ==
  /\ \A j \in DOMAIN log :
       log[j].op = CASE j % 3 = 1 -> "train"
                     [] j % 3 = 2 -> "test"
                     [] OTHER -> "summary"
  /\ derr = "none"
  /\ dpc # "error"
  /\ DriverStopped =>
       Cardinality(Summaries) = IntOf(NUM_EPOCHS) + (IF HasFraction THEN 1 ELSE 0)

\* ---- The adapter's datapipe ----

\* C13: for a record set the reader declares, every complete iteration of the
\* datapipe, the first and each later one, has yielded as many records as the
\* reader declares for the set, and the j-th yielded record is the decoding of
\* the reader's j-th record; an iteration under way has yielded a prefix.
C13_CompleteIterationYieldsAll ==
  (record_set \in RecordSetNames /\ apc \in {"iterating", "exhausted"}) =>
    /\ Len(yielded) <= Len(reader[record_set])
    /\ \A j \in 1..Len(yielded) : yielded[j] = Decoded(reader[record_set][j])
    /\ apc = "exhausted" =>
         /\ Len(yielded) = Len(reader[record_set])
         /\ completed >= 1

\* C13 witness: the second complete iteration of the train set <<2, 1>>, which
\* followed an iteration left after one record, has yielded both records.
C13_Witness ==
  /\ record_set = "train"
  /\ reader["train"] = <<2, 1>>
  /\ apc = "exhausted"
  /\ iterations = 3
  /\ completed = 2
  /\ yielded = <<Decoded(2), Decoded(1)>>

====
